---- MODULE Spec2Model ----
(***************************************************************************)
(* Cast model viewer: the binary Cast decoder (CastFile / CastNode /       *)
(* CastProperty ::load), load_cast_file, the projection of a decoded       *)
(* model node into a Model (process_model_node and its three stages), and  *)
(* the AssetManager with its two RwLocks under concurrent calls.           *)
(*                                                                         *)
(* Representation.  A byte stream is a sequence of naturals 0..255 and the *)
(* reader's cursor is the number of bytes consumed.  Strings (property     *)
(* names, type tags, string values) are sequences of bytes.  Option is a   *)
(* sequence of length 0 (None) or 1 (Some).  A HashMap is a function whose *)
(* DOMAIN is its key set.  f32/f64/vector values are kept as their raw     *)
(* little-endian bytes (bit exact).  Integers read from the stream are     *)
(* computed little-endian; the input sets keep them below 2^31.            *)
(***************************************************************************)
EXTENDS Integers, Sequences, FiniteSets, TLC

VARIABLES
    src,         \* the encoded file description the stream was built from
    data,        \* the bytes behind the reader
    pos,         \* the reader's cursor
    pc,          \* position of the decode call: header, nodes, returned, loaded
    status,      \* outcome of CastFile::load: none, Ok, Err, Panic
    roots_left,  \* iterations left of the loop over header.root_nodes
    stack,       \* active CastNode::load frames, innermost last
    root_nodes,  \* CastFile.root_nodes being filled by CastFile::load
    result,      \* the root list carried by an Ok return of CastFile::load
    cast,        \* return value of load_cast_file (Option<CastNode>)
    model_node,  \* argument of process_model_node
    stage,       \* position inside process_model_node
    model,       \* the Model being assembled by process_model_node
    policy,        \* priority policy of the RwLocks of this build
    loaded_assets, \* AssetManager.loaded_assets (behind its RwLock)
    search_assets, \* AssetManager.search_assets (behind its RwLock)
    readers,       \* per RwLock, the threads holding a read guard
    calls,         \* per thread, the AssetManager call it is in and its locals
    started        \* number of calls started so far

vars == <<src, data, pos, pc, status, roots_left, stack, root_nodes, result,
          cast, model_node, stage, model, policy, loaded_assets, search_assets,
          readers, calls, started>>

decodeVars == <<src, data, pos, pc, status, roots_left, stack, root_nodes,
                result, cast>>

projectVars == <<model_node, stage, model>>

assetVars == <<policy, loaded_assets, search_assets, readers, calls, started>>

-----------------------------------------------------------------------------
(* Bounds of the input sets *)

MaxDepth == 2

MaxValues == 2

MaxFaceValues == 6

\* Calls made on one AssetManager in a run
MaxCalls == 3

\* Largest index passed to assets_info and preview
MaxIndex == 1

-----------------------------------------------------------------------------
(* Program constants *)

CAST_MAGIC == 1953718627

ID_MODEL == 1818521453

ID_SKELETON == 1818585971

ID_BONE == 1701736290

ID_MATERIAL == 1819566445

ID_FILE == 1701603686

ID_MESH == 1752393069

HEADER_SIZE == 16

NODE_HEADER_SIZE == 24

PROPERTY_HEADER_SIZE == 8

None == <<>>

Some(x) == <<x>>

\* The threads calling into one AssetManager
Threads == {1, 2, 3}

\* The two RwLocks, named by the field they guard
Locks == {"search_assets", "loaded_assets"}

\* A thread that is in no call
IdleCall ==
    [pc |-> "idle", op |-> "none", index |-> 0, term |-> <<>>, todo |-> <<>>,
     results |-> <<>>, seen |-> <<>>, ret |-> [kind |-> "none", v |-> <<>>]]

\* AssetManager::new, no thread inside a call
AssetManagerNew ==
    /\ search_assets = None
    /\ loaded_assets = <<>>
    /\ readers = [l \in Locks |-> {}]
    /\ calls = [t \in Threads |-> IdleCall]
    /\ started = 0

-----------------------------------------------------------------------------
(* Property names and type tags as byte strings *)

TagB == <<98>>

TagH == <<104>>

TagI == <<105>>

TagL == <<108>>

TagF == <<102>>

TagD == <<100>>

TagS == <<115>>

Tag2V == <<50, 118>>

Tag3V == <<51, 118>>

Tag4V == <<52, 118>>

KnownTags == {TagB, TagH, TagI, TagL, TagF, TagD, TagS, Tag2V, Tag3V, Tag4V}

-----------------------------------------------------------------------------
(* Reading from the stream *)

RECURSIVE LEValue(_)
LEValue(bytes) ==
    IF bytes = <<>> THEN 0 ELSE bytes[1] + 256 * LEValue(Tail(bytes))

\* A read that tolerates the end of the stream (read instead of read_exact).
ReadOkLenient(s, p, n) == TRUE

\* read_exact: the n bytes at cursor p are all there.
ReadOk(s, p, n) == p + n <= Len(s)

\* The n bytes at cursor p (zero beyond the end; only used after ReadOk).
Take(s, p, n) == [i \in 1..n |-> IF p + i <= Len(s) THEN s[p + i] ELSE 0]

\* from_utf8_lossy(..).replace('\0', "") on ASCII bytes.
StripNul(bytes) == SelectSeq(bytes, LAMBDA b : b # 0)

Value(kind, v) == [kind |-> kind, v |-> v]

ReadFail(p) == [ok |-> FALSE, pos |-> p, val |-> Value("None", 0)]

Fixed(s, p, n, kind, numeric) ==
    IF ReadOk(s, p, n)
    THEN [ok |-> TRUE, pos |-> p + n,
          val |-> Value(kind, IF numeric THEN LEValue(Take(s, p, n))
                              ELSE Take(s, p, n))]
    ELSE ReadFail(p)

\* read_null_terminated_string: read_u8 until a zero byte.
RECURSIVE ReadNullTerminated(_, _, _)
ReadNullTerminated(s, p, acc) ==
    IF ~ReadOk(s, p, 1) THEN ReadFail(p)
    ELSE IF Take(s, p, 1)[1] = 0
         THEN [ok |-> TRUE, pos |-> p + 1, val |-> Value("String", acc)]
         ELSE ReadNullTerminated(s, p + 1, Append(acc, Take(s, p, 1)[1]))

\* The default arm decoding an unknown tag as a byte.
UnknownTagAsByte(s, p) == Fixed(s, p, 1, "Byte", TRUE)

\* The default arm of read_property: Err("invalid property type").
UnknownTag(s, p) == ReadFail(p)

\* CastProperty::read_property
ReadProperty(s, p, type_str) ==
    CASE type_str = TagB -> Fixed(s, p, 1, "Byte", TRUE)
      [] type_str = TagH -> Fixed(s, p, 2, "Short", TRUE)
      [] type_str = TagI -> Fixed(s, p, 4, "Int", TRUE)
      [] type_str = TagL -> Fixed(s, p, 8, "Long", TRUE)
      [] type_str = TagF -> Fixed(s, p, 4, "Float", FALSE)
      [] type_str = TagD -> Fixed(s, p, 8, "Double", FALSE)
      [] type_str = TagS -> ReadNullTerminated(s, p, <<>>)
      [] type_str = Tag2V -> Fixed(s, p, 8, "Vector2", FALSE)
      [] type_str = Tag3V -> Fixed(s, p, 12, "Vector3", FALSE)
      [] type_str = Tag4V -> Fixed(s, p, 16, "Vector4", FALSE)
      [] OTHER -> UnknownTag(s, p)

\* The loop of CastProperty::load over 0..header.value_count.
RECURSIVE ReadValues(_, _, _, _, _)
ReadValues(s, p, type_str, n, acc) ==
    IF n = 0 THEN [ok |-> TRUE, pos |-> p, values |-> acc]
    ELSE LET r == ReadProperty(s, p, type_str)
         IN IF r.ok
            THEN ReadValues(s, r.pos, type_str, n - 1, Append(acc, r.val))
            ELSE [ok |-> FALSE, pos |-> r.pos, values |-> <<>>]

NoProperty == [name |-> <<>>, property_type |-> <<>>, values |-> <<>>]

\* CastProperty::load
PropertyLoad(s, p) ==
    LET h == Take(s, p, PROPERTY_HEADER_SIZE)
        name_length == LEValue(<<h[3], h[4]>>)
        value_count == LEValue(<<h[5], h[6], h[7], h[8]>>)
        q == p + PROPERTY_HEADER_SIZE
        property_type == StripNul(<<h[1], h[2]>>)
        vals == ReadValues(s, q + name_length, property_type, value_count, <<>>)
    IN IF ~ReadOk(s, p, PROPERTY_HEADER_SIZE)
       THEN [ok |-> FALSE, pos |-> p, prop |-> NoProperty]
       ELSE IF ~ReadOk(s, q, name_length)
            THEN [ok |-> FALSE, pos |-> q, prop |-> NoProperty]
            ELSE IF ~vals.ok
                 THEN [ok |-> FALSE, pos |-> vals.pos, prop |-> NoProperty]
                 ELSE [ok |-> TRUE, pos |-> vals.pos,
                       prop |-> [name |-> Take(s, q, name_length),
                                 property_type |-> property_type,
                                 values |-> vals.values]]

-----------------------------------------------------------------------------
(* Nodes *)

EmptyMap == [k \in {} |-> NoProperty]

\* CastNode::new
NewNode(identifier, hash) ==
    [identifier |-> identifier, hash |-> hash, properties |-> EmptyMap,
     child_nodes |-> <<>>, parent_node |-> None]

MapPut(m, p) ==
    [k \in DOMAIN m \cup {p.name} |-> IF k = p.name THEN p ELSE m[k]]

\* HashMap::insert without the contains_key test: the last occurrence wins.
InsertAlways(m, p) == MapPut(m, p)

\* if !node.properties.contains_key(&property.name) { insert }
InsertIfAbsent(m, p) == IF p.name \in DOMAIN m THEN m ELSE MapPut(m, p)

\* The magic test of CastFile::load, comparing nothing.
MagicOkAny(magic) == TRUE

MagicOk(magic) == magic = CAST_MAGIC

\* .find(|node| node.identifier == id) over a child list
RECURSIVE FindChild(_, _)
FindChild(nodes, id) ==
    IF nodes = <<>> THEN None
    ELSE IF Head(nodes).identifier = id THEN Some(Head(nodes))
         ELSE FindChild(Tail(nodes), id)

\* load_cast_file on the outcome of CastFile::load
LoadCastFileOf(st, roots) ==
    IF st # "Ok" THEN None
    ELSE IF roots = <<>> THEN None
         ELSE FindChild(roots[1].child_nodes, ID_MODEL)

-----------------------------------------------------------------------------
(* The binary layout, used to build the input streams.  A file description *)
(* is [magic, roots]; a node description is [identifier, size, hash,       *)
(* props, kids]; a property description is [ptype, name, count, body]      *)
(* with ptype the two raw tag bytes and body the encoded values.           *)

RECURSIVE LEBytes(_, _)
LEBytes(n, w) == IF w = 0 THEN <<>> ELSE <<n % 256>> \o LEBytes(n \div 256, w - 1)

EncValue(v) ==
    CASE v.kind = "Byte" -> LEBytes(v.v, 1)
      [] v.kind = "Short" -> LEBytes(v.v, 2)
      [] v.kind = "Int" -> LEBytes(v.v, 4)
      [] v.kind = "Long" -> LEBytes(v.v, 8)
      [] v.kind = "String" -> v.v \o <<0>>
      [] OTHER -> v.v

RECURSIVE EncValues(_)
EncValues(vs) == IF vs = <<>> THEN <<>> ELSE EncValue(Head(vs)) \o EncValues(Tail(vs))

\* CastPropertyHeader, the sized name, the values
EncProperty(p) ==
    p.ptype \o LEBytes(Len(p.name), 2) \o LEBytes(p.count, 4) \o p.name
        \o EncValues(p.body)

RECURSIVE EncProperties(_)
EncProperties(ps) ==
    IF ps = <<>> THEN <<>> ELSE EncProperty(Head(ps)) \o EncProperties(Tail(ps))

\* CastNodeHeader, the properties, the children
RECURSIVE EncNode(_)
RECURSIVE EncNodes(_)
EncNode(n) ==
    LEBytes(n.identifier, 4) \o LEBytes(n.size, 4) \o LEBytes(n.hash, 8)
        \o LEBytes(Len(n.props), 4) \o LEBytes(Len(n.kids), 4)
        \o EncProperties(n.props) \o EncNodes(n.kids)

EncNodes(ns) == IF ns = <<>> THEN <<>> ELSE EncNode(Head(ns)) \o EncNodes(Tail(ns))

\* CastHeader (version 1, flags 0), the root nodes
EncFile(f) ==
    LEBytes(f.magic, 4) \o LEBytes(1, 4) \o LEBytes(Len(f.roots), 4)
        \o LEBytes(0, 4) \o EncNodes(f.roots)

-----------------------------------------------------------------------------
(* What a complete, well-formed stream decodes to *)

\* A property description the decoder accepts: its values are read by a
\* known codec, or there is no value to read.
WellFormedProp(p) == StripNul(p.ptype) \in KnownTags \/ p.count = 0

RECURSIVE WellFormedNode(_)
WellFormedNode(n) ==
    /\ \A i \in 1..Len(n.props) : WellFormedProp(n.props[i])
    /\ \A i \in 1..Len(n.kids) : WellFormedNode(n.kids[i])

WellFormedFile(f) == \A i \in 1..Len(f.roots) : WellFormedNode(f.roots[i])

PropOf(p) ==
    [name |-> p.name, property_type |-> StripNul(p.ptype),
     values |-> IF p.count = 0 THEN <<>> ELSE p.body]

\* Index of the first property description named k
FirstNamed(ps, k) == CHOOSE i \in 1..Len(ps) :
    /\ ps[i].name = k
    /\ \A j \in 1..(i - 1) : ps[j].name # k

FirstWins(ps) ==
    [k \in {ps[i].name : i \in 1..Len(ps)} |-> PropOf(ps[FirstNamed(ps, k)])]

RECURSIVE ExpectedNode(_, _)
ExpectedNode(n, parent) ==
    [identifier |-> n.identifier, hash |-> n.hash,
     properties |-> FirstWins(n.props),
     child_nodes |-> [i \in 1..Len(n.kids) |-> ExpectedNode(n.kids[i], Some(n.hash))],
     parent_node |-> parent]

ExpectedRoots(f) == [i \in 1..Len(f.roots) |-> ExpectedNode(f.roots[i], None)]

-----------------------------------------------------------------------------
(* Input streams *)

B(n) == Value("Byte", n)

PD(ptype, name, body) ==
    [ptype |-> ptype, name |-> name, count |-> Len(body), body |-> body]

\* An unrecognised tag declaring `count` values, followed by `body`
PX(ptype, name, count, body) ==
    [ptype |-> ptype, name |-> name, count |-> count, body |-> body]

ND(identifier, hash, props, kids) ==
    [identifier |-> identifier, size |-> 0, hash |-> hash, props |-> props,
     kids |-> kids]

\* The tag "root"
ID_ROOT == LEValue(<<114, 111, 111, 116>>)

NameF == <<102>>

NameN == <<110>>

NameP == <<112>>

NameM == <<109>>

NameU == <<117>>

F32One == <<0, 0, 128, 63>>

PropLists ==
    {<<>>,
     <<PD(<<98, 0>>, NameF, <<B(3), B(1), B(2)>>)>>,
     <<PD(<<98, 0>>, NameF, <<B(3)>>), PD(<<104, 0>>, NameF, <<Value("Short", 258)>>)>>,
     <<PD(<<115, 0>>, NameN, <<Value("String", <<97, 98>>)>>),
       PD(<<105, 0>>, NameP, <<Value("Int", 65536)>>),
       PD(<<115, 0>>, NameN, <<Value("String", <<99>>), Value("String", <<>>)>>)>>,
     <<PD(<<108, 0>>, NameM, <<Value("Long", 5)>>),
       PD(<<102, 0>>, NameU, <<Value("Float", F32One)>>),
       PD(<<100, 0>>, NameP, <<Value("Double", F32One \o F32One)>>)>>,
     <<PD(<<50, 118>>, NameU, <<Value("Vector2", F32One \o F32One)>>),
       PD(<<51, 118>>, NameP, <<Value("Vector3", F32One \o F32One \o F32One)>>),
       PD(<<52, 118>>, NameM, <<Value("Vector4", F32One \o F32One \o F32One \o F32One)>>),
       PD(<<50, 118>>, NameU, <<>>)>>,
     <<PD(<<0, 98>>, NameN, <<B(9)>>), PD(<<98, 0>>, <<>>, <<>>)>>,
     <<PX(<<120, 0>>, NameU, 0, <<>>)>>,
     <<PX(<<120, 0>>, NameU, 0, <<>>), PD(<<98, 0>>, NameU, <<B(1)>>)>>,
     <<PD(<<98, 0>>, NameF, <<B(1)>>), PX(<<0, 0>>, NameU, 0, <<>>)>>,
     <<PX(<<120, 0>>, NameU, 2, <<B(1), B(2)>>)>>,
     <<PD(<<98, 0>>, NameF, <<B(1)>>), PX(<<98, 98>>, NameF, 1, <<B(7)>>)>>,
     <<PX(<<0, 0>>, NameN, 1, <<>>)>>}
    \cup {<<PD(<<104, 0>>, NameF, [i \in 1..k |-> Value("Short", 255 + i)])>> :
             k \in 0..MaxValues}

RECURSIVE Wrap(_, _)
Wrap(d, n) == IF d = 0 THEN n ELSE ND(ID_ROOT, d, <<>>, <<Wrap(d - 1, n)>>)

Leaf(P) == ND(ID_MESH, 7, P, <<>>)

RootLists(P) ==
    {<<Leaf(P)>>,
     <<ND(ID_ROOT, 1, P, <<Leaf(<<>>), ND(ID_MODEL, 2, <<>>, <<Leaf(<<>>)>>)>>)>>,
     <<Leaf(<<>>), ND(ID_ROOT, 1, <<>>, <<ND(ID_MODEL, 2, P, <<>>)>>)>>}
    \cup {<<Wrap(d, ND(ID_MODEL, 9, P, <<>>))>> : d \in 1..MaxDepth}

BadMagics == {0, 1953718628, 1667331956}

Files ==
    {[magic |-> m, roots |-> <<>>] : m \in {CAST_MAGIC} \cup BadMagics}
    \cup {[magic |-> CAST_MAGIC, roots |-> r] : r \in UNION {RootLists(P) : P \in PropLists}}
    \cup {[magic |-> m, roots |-> r] : m \in BadMagics, r \in RootLists(<<>>)}

\* Every prefix of a well-magicked stream; the whole stream and the bare
\* header of a stream with another magic.
Cuts(f) ==
    IF f.magic = CAST_MAGIC THEN 0..Len(EncFile(f))
    ELSE {HEADER_SIZE, Len(EncFile(f))}

-----------------------------------------------------------------------------
(* The decode state machine *)

NoModelNode == NewNode(0, 0)

NoModel == [skeleton |-> <<>>, materials |-> <<>>, meshes |-> <<>>]

InitDecode ==
    /\ src \in UNION {{[file |-> f, cut |-> c, full |-> Len(EncFile(f))] :
                          c \in Cuts(f)} : f \in Files}
    /\ data = SubSeq(EncFile(src.file), 1, src.cut)
    /\ pos = 0
    /\ pc = "header"
    /\ status = "none"
    /\ roots_left = 0
    /\ stack = <<>>
    /\ root_nodes = <<>>
    /\ result = <<>>
    /\ cast = None
    /\ model_node = NoModelNode
    /\ stage = "idle"
    /\ model = NoModel
    /\ policy = "readers_first"
    /\ AssetManagerNew

\* `?` on an Err: every frame is unwound, the locals are dropped and
\* CastFile::load returns Err.  Every read of the decode path ends in `?`;
\* none is unwrapped, so no step of the decoder sets status to Panic.  The
\* cursor of a failed read is wherever the reader left it: at the failed
\* read's start or at the end of the data.
Propagate(reached) ==
    /\ status' = "Err"
    /\ pc' = "returned"
    /\ pos' \in {reached, Len(data)}
    /\ stack' = <<>>
    /\ root_nodes' = <<>>
    /\ result' = <<>>
    /\ UNCHANGED <<src, data, roots_left, cast>>

\* CastFile::load, up to the loop over the root nodes
FileLoadHeader ==
    /\ pc = "header"
    /\ LET h == Take(data, pos, HEADER_SIZE)
           magic == LEValue(SubSeq(h, 1, 4))
           root_count == LEValue(SubSeq(h, 9, 12))
       IN IF ~ReadOk(data, pos, HEADER_SIZE) THEN Propagate(pos)
          ELSE IF ~MagicOk(magic)
               THEN /\ status' = "Err"
                    /\ pc' = "returned"
                    /\ pos' = pos + HEADER_SIZE
                    /\ UNCHANGED <<src, data, roots_left, stack, root_nodes,
                                   result, cast>>
               ELSE /\ pos' = pos + HEADER_SIZE
                    /\ roots_left' = root_count
                    /\ pc' = "nodes"
                    /\ UNCHANGED <<src, data, status, stack, root_nodes,
                                   result, cast>>
    /\ UNCHANGED projectVars
    /\ UNCHANGED assetVars

Top == stack[Len(stack)]

\* CastNode::load is entered: by the root loop, or by the child loop of the
\* innermost frame once its properties are read.  It reads the node header.
NodeLoadHeader ==
    /\ pc = "nodes"
    /\ \/ stack = <<>> /\ roots_left > 0
       \/ stack # <<>> /\ Top.props_left = 0 /\ Top.kids_left > 0
    /\ LET h == Take(data, pos, NODE_HEADER_SIZE)
           identifier == LEValue(SubSeq(h, 1, 4))
           node_hash == LEValue(SubSeq(h, 9, 16))
           property_count == LEValue(SubSeq(h, 17, 20))
           child_count == LEValue(SubSeq(h, 21, 24))
       IN IF ~ReadOk(data, pos, NODE_HEADER_SIZE) THEN Propagate(pos)
          ELSE /\ pos' = pos + NODE_HEADER_SIZE
               /\ stack' = Append(stack, [node |-> NewNode(identifier, node_hash),
                                          props_left |-> property_count,
                                          kids_left |-> child_count])
               /\ UNCHANGED <<src, data, pc, status, roots_left, root_nodes,
                              result, cast>>
    /\ UNCHANGED projectVars
    /\ UNCHANGED assetVars

\* One iteration of the property loop of CastNode::load
NodeLoadProperty ==
    /\ pc = "nodes"
    /\ stack # <<>>
    /\ Top.props_left > 0
    /\ LET r == PropertyLoad(data, pos)
       IN IF ~r.ok THEN Propagate(r.pos)
          ELSE /\ pos' = r.pos
               /\ stack' = [stack EXCEPT ![Len(stack)] =
                               [@ EXCEPT !.node.properties =
                                             InsertIfAbsent(@, r.prop),
                                         !.props_left = @ - 1]]
               /\ UNCHANGED <<src, data, pc, status, roots_left, root_nodes,
                              result, cast>>
    /\ UNCHANGED projectVars
    /\ UNCHANGED assetVars

\* A child pushed as CastNode::new left it, without a parent.
SetParentUnset(child, parent) == child

\* child.parent_node = Some(node.hash)
SetParent(child, parent) == [child EXCEPT !.parent_node = Some(parent.hash)]

\* CastNode::load returns Ok(node): to the child loop of the enclosing
\* frame, or to the root loop of CastFile::load.
NodeReturn ==
    /\ pc = "nodes"
    /\ stack # <<>>
    /\ Top.props_left = 0
    /\ Top.kids_left = 0
    /\ LET n == Len(stack)
           done == Top.node
       IN IF n > 1
          THEN /\ stack' = [SubSeq(stack, 1, n - 1) EXCEPT ![n - 1] =
                              [@ EXCEPT !.node.child_nodes =
                                            Append(@, SetParent(done, stack[n - 1].node)),
                                        !.kids_left = @ - 1]]
               /\ UNCHANGED <<roots_left, root_nodes>>
          ELSE /\ stack' = <<>>
               /\ root_nodes' = Append(root_nodes, done)
               /\ roots_left' = roots_left - 1
    /\ UNCHANGED <<src, data, pos, pc, status, result, cast>>
    /\ UNCHANGED projectVars
    /\ UNCHANGED assetVars

\* CastFile::load returns Ok(result)
FileReturn ==
    /\ pc = "nodes"
    /\ stack = <<>>
    /\ roots_left = 0
    /\ status' = "Ok"
    /\ result' = root_nodes
    /\ pc' = "returned"
    /\ UNCHANGED <<src, data, pos, roots_left, stack, root_nodes, cast>>
    /\ UNCHANGED projectVars
    /\ UNCHANGED assetVars

\* load_cast_file, after its call of CastFile::load
LoadCastFile ==
    /\ pc = "returned"
    /\ cast' = LoadCastFileOf(status, result)
    /\ pc' = "loaded"
    /\ UNCHANGED <<src, data, pos, status, roots_left, stack, root_nodes, result>>
    /\ UNCHANGED projectVars
    /\ UNCHANGED assetVars

NextDecode ==
    \/ FileLoadHeader
    \/ NodeLoadHeader
    \/ NodeLoadProperty
    \/ NodeReturn
    \/ FileReturn
    \/ LoadCastFile

SpecDecode == InitDecode /\ [][NextDecode]_vars

-----------------------------------------------------------------------------
(* Properties of the decoder *)

Returned == pc \in {"returned", "loaded"}

\* The stream holds a whole file header whose magic is not CAST_MAGIC.
BadMagicStream ==
    /\ Len(data) >= HEADER_SIZE
    /\ LEValue(SubSeq(data, 1, 4)) # CAST_MAGIC

\* The stream ends before everything its headers declare.
Truncated == src.cut < src.full

RECURSIVE NodeHasBadProp(_)
NodeHasBadProp(n) ==
    \/ \E i \in 1..Len(n.props) : ~WellFormedProp(n.props[i])
    \/ \E i \in 1..Len(n.kids) : NodeHasBadProp(n.kids[i])

\* Some property of the file has an unrecognised tag and declares a value.
FileHasBadProp(f) == \E i \in 1..Len(f.roots) : NodeHasBadProp(f.roots[i])

RECURSIVE NodeHasUnknownTag(_)
NodeHasUnknownTag(n) ==
    \/ \E i \in 1..Len(n.props) : StripNul(n.props[i].ptype) \notin KnownTags
    \/ \E i \in 1..Len(n.kids) : NodeHasUnknownTag(n.kids[i])

FileHasUnknownTag(f) == \E i \in 1..Len(f.roots) : NodeHasUnknownTag(f.roots[i])

RECURSIVE NodeHasDuplicate(_)
NodeHasDuplicate(n) ==
    \/ \E i, j \in 1..Len(n.props) : i < j /\ n.props[i].name = n.props[j].name
    \/ \E i \in 1..Len(n.kids) : NodeHasDuplicate(n.kids[i])

FileHasDuplicate(f) == \E i \in 1..Len(f.roots) : NodeHasDuplicate(f.roots[i])

\* The properties stored in a decoded node and its subtree
RECURSIVE StoredProps(_)
StoredProps(n) ==
    {n.properties[k] : k \in DOMAIN n.properties}
        \cup UNION {StoredProps(n.child_nodes[i]) : i \in 1..Len(n.child_nodes)}

\* ... in every node the decoder holds: frames, finished roots, the result.
AllStoredProps ==
    UNION ({StoredProps(stack[i].node) : i \in 1..Len(stack)}
           \cup {StoredProps(root_nodes[i]) : i \in 1..Len(root_nodes)}
           \cup {StoredProps(result[i]) : i \in 1..Len(result)})

NothingDecoded == stack = <<>> /\ root_nodes = <<>> /\ result = <<>>

\* C1: a header whose magic is not 0x74736163 makes CastFile::load return an
\* error with the cursor just past the 16-byte header; no node header,
\* property or child is ever read and no CastNode is produced, whatever root
\* count the header declares.
C1_BadMagicFails ==
    BadMagicStream =>
        /\ pc # "nodes"
        /\ NothingDecoded
        /\ pos \in {0, HEADER_SIZE}
        /\ Returned => status = "Err" /\ pos = HEADER_SIZE /\ cast = None

C1_Witness ==
    /\ BadMagicStream
    /\ pc = "returned"
    /\ status = "Err"
    /\ Len(src.file.roots) = 2
    /\ Len(data) > HEADER_SIZE

KnownOrEmpty(p) == p.property_type \in KnownTags \/ p.values = <<>>

KnownTag(p) == p.property_type \in KnownTags

\* C3 (as amended): a property whose tag is not one of b, h, i, l, f, d, s,
\* 2v, 3v, 4v and whose declared value count is at least 1 makes the whole
\* decode fail, at every depth, and is stored in no node; with a declared
\* value count of 0 no value is read, and such a property is only ever stored
\* with an empty value list.
C3_UnknownTagWithValuesFails ==
    /\ FileHasBadProp(src.file) /\ Returned => status = "Err" /\ NothingDecoded
    /\ \A p \in AllStoredProps : KnownOrEmpty(p)

C3_Witness ==
    /\ pc = "returned"
    /\ status = "Err"
    /\ ~Truncated
    /\ src.file.magic = CAST_MAGIC
    /\ FileHasBadProp(src.file)
    /\ src.file.roots[1].kids # <<>>
    /\ ~(\E i \in 1..Len(src.file.roots[1].props) :
            ~WellFormedProp(src.file.roots[1].props[i]))

\* C3 (as claimed): a property with an unrecognised tag fails the decode for
\* every declared value count, 0 included, and is never stored in a node.
C3_Original ==
    /\ FileHasUnknownTag(src.file) /\ Returned => status = "Err"
    /\ \A p \in AllStoredProps : KnownTag(p)

RECURSIVE NodeMatches(_, _)
NodeMatches(node, n) ==
    /\ node.properties = FirstWins(n.props)
    /\ Len(node.child_nodes) = Len(n.kids)
    /\ \A i \in 1..Len(n.kids) : NodeMatches(node.child_nodes[i], n.kids[i])

\* C8: when a node's encoded property list repeats a name, the decoded map
\* holds the tag and values of the first occurrence; the later occurrences
\* are consumed from the stream and dropped without an error.
C8_FirstOccurrenceWins ==
    ( /\ FileHasDuplicate(src.file)
      /\ WellFormedFile(src.file)
      /\ src.file.magic = CAST_MAGIC
      /\ ~Truncated
      /\ Returned )
    => /\ status = "Ok"
       /\ pos = Len(data)
       /\ Len(result) = Len(src.file.roots)
       /\ \A i \in 1..Len(result) : NodeMatches(result[i], src.file.roots[i])

C8_Witness ==
    /\ FileHasDuplicate(src.file)
    /\ pc = "returned"
    /\ status = "Ok"
    /\ \E k \in DOMAIN result[1].properties :
          /\ result[1].properties[k].values # <<>>
          /\ \E i, j \in 1..Len(src.file.roots[1].props) :
                /\ i < j
                /\ src.file.roots[1].props[i].name = k
                /\ src.file.roots[1].props[j].name = k
                /\ src.file.roots[1].props[j].body # src.file.roots[1].props[i].body

\* Every child below node names node's hash as its parent.
RECURSIVE WellParented(_)
WellParented(node) ==
    \A i \in 1..Len(node.child_nodes) :
        /\ node.child_nodes[i].parent_node = Some(node.hash)
        /\ WellParented(node.child_nodes[i])

\* node has the tag and hash of the encoded node n, and as children the
\* encoded children of n: as many, in the same order, each of that shape.
RECURSIVE SameShape(_, _)
SameShape(node, n) ==
    /\ node.identifier = n.identifier
    /\ node.hash = n.hash
    /\ Len(node.child_nodes) = Len(n.kids)
    /\ \A i \in 1..Len(n.kids) : SameShape(node.child_nodes[i], n.kids[i])

\* C14: in the tree of an Ok return of CastFile::load every root has
\* parent_node None, every child of a node N has parent_node Some(N.hash),
\* and each node's children are the children encoded after it, in stream
\* order and as many as its header declares.
C14_ParentLinksAndChildOrder ==
    (Returned /\ status = "Ok") =>
        /\ Len(result) = Len(src.file.roots)
        /\ \A i \in 1..Len(result) :
              /\ result[i].parent_node = None
              /\ WellParented(result[i])
              /\ SameShape(result[i], src.file.roots[i])

C14_Witness ==
    /\ pc = "returned"
    /\ status = "Ok"
    /\ Len(result) = 1
    /\ Len(result[1].child_nodes) = 2
    /\ result[1].child_nodes[1].identifier # result[1].child_nodes[2].identifier
    /\ result[1].child_nodes[2].parent_node = Some(result[1].hash)
    /\ Len(result[1].child_nodes[2].child_nodes) = 1
    /\ result[1].child_nodes[2].child_nodes[1].parent_node
           = Some(result[1].child_nodes[2].hash)
    /\ result[1].child_nodes[2].hash # result[1].hash

-----------------------------------------------------------------------------
(* Typed accessors of PropertyValue and of a node's properties *)

NameAlbedo == <<97, 108, 98, 101, 100, 111>>

NameDiffuse == <<100, 105, 102, 102, 117, 115, 101>>

NameVP == <<118, 112>>

NameUL == <<117, 108>>

NameMI == <<109, 105>>

NameLP == <<108, 112>>

NameLR == <<108, 114>>

NameS == <<115>>

NameWP == <<119, 112>>

NameWR == <<119, 114>>

UnwrapOr(o, d) == IF o = None THEN d ELSE o[1]

\* PropertyValue::get_uint
GetUint(v) == IF v.kind \in {"Byte", "Short", "Int"} THEN Some(v.v) ELSE None

\* PropertyValue::get_int (`as i32` changes no value below 2^31)
GetInt(v) == IF v.kind \in {"Byte", "Short", "Int"} THEN Some(v.v) ELSE None

\* PropertyValue::get_long
GetLong(v) == IF v.kind \in {"Byte", "Short", "Int", "Long"} THEN Some(v.v) ELSE None

\* PropertyValue::get_string
GetString(v) == IF v.kind = "String" THEN Some(v.v) ELSE None

\* PropertyValue::get_vector3
GetVector3(v) == IF v.kind = "Vector3" THEN Some(v.v) ELSE None

\* PropertyValue::get_quaternion
GetQuaternion(v) == IF v.kind = "Vector4" THEN Some(v.v) ELSE None

\* node.properties.get(name).and_then(|p| p.values.first())
FirstValue(node, name) ==
    IF name \in DOMAIN node.properties /\ node.properties[name].values # <<>>
    THEN Some(node.properties[name].values[1])
    ELSE None

\* ... .and_then(|v| v.get_string())
FirstString(node, name) ==
    LET f == FirstValue(node, name) IN IF f = None THEN None ELSE GetString(f[1])

\* ... .and_then(|v| v.get_int())
FirstInt(node, name) ==
    LET f == FirstValue(node, name) IN IF f = None THEN None ELSE GetInt(f[1])

\* ... .and_then(|v| v.get_long())
FirstLong(node, name) ==
    LET f == FirstValue(node, name) IN IF f = None THEN None ELSE GetLong(f[1])

\* ... .and_then(|v| v.get_vector3())
FirstVector3(node, name) ==
    LET f == FirstValue(node, name) IN IF f = None THEN None ELSE GetVector3(f[1])

\* ... .and_then(|v| v.get_quaternion())
FirstQuaternion(node, name) ==
    LET f == FirstValue(node, name) IN IF f = None THEN None ELSE GetQuaternion(f[1])

-----------------------------------------------------------------------------
(* Skeleton *)

\* A bone whose missing parent index reads as 0.
ProcessBoneNodeParentZero(bone_node) ==
    [name |-> FirstString(bone_node, NameN),
     parent |-> UnwrapOr(FirstInt(bone_node, NameP), 0),
     local_position |-> FirstVector3(bone_node, NameLP),
     local_rotation |-> FirstQuaternion(bone_node, NameLR),
     local_scale |-> FirstVector3(bone_node, NameS),
     world_position |-> FirstVector3(bone_node, NameWP),
     world_rotation |-> FirstQuaternion(bone_node, NameWR),
     world_scale |-> FirstVector3(bone_node, NameS)]

\* process_bone_node
ProcessBoneNode(bone_node) ==
    [name |-> FirstString(bone_node, NameN),
     parent |-> UnwrapOr(FirstInt(bone_node, NameP), -1),
     local_position |-> FirstVector3(bone_node, NameLP),
     local_rotation |-> FirstQuaternion(bone_node, NameLR),
     local_scale |-> FirstVector3(bone_node, NameS),
     world_position |-> FirstVector3(bone_node, NameWP),
     world_rotation |-> FirstQuaternion(bone_node, NameWR),
     world_scale |-> FirstVector3(bone_node, NameS)]

\* process_skeleton_node: the bones of the direct children tagged "bone"
RECURSIVE BonesOf(_)
BonesOf(nodes) ==
    IF nodes = <<>> THEN <<>>
    ELSE (IF Head(nodes).identifier = ID_BONE
          THEN <<ProcessBoneNode(Head(nodes))>> ELSE <<>>) \o BonesOf(Tail(nodes))

ProcessSkeletonNode(skeleton_node) == BonesOf(skeleton_node.child_nodes)

-----------------------------------------------------------------------------
(* Materials *)

\* The reference hash read `albedo` first, `diffuse` second.
AlbedoThenDiffuse(node) ==
    UnwrapOr(FirstLong(node, NameAlbedo),
             UnwrapOr(FirstLong(node, NameDiffuse), 0))

\* albedo_hash: `diffuse`, or else `albedo`, or else 0
AlbedoHash(node) ==
    UnwrapOr(FirstLong(node, NameDiffuse),
             UnwrapOr(FirstLong(node, NameAlbedo), 0))

TextureRef(texture_node) ==
    [file_name |-> UnwrapOr(FirstString(texture_node, NameP), <<>>),
     texture_usage |-> "Albedo",
     texture_alias |-> <<>>,
     texture_hash |-> texture_node.hash]

\* The loop over the material's children: the first child tagged "file"
\* whose hash is h gives one texture reference, then break.
RECURSIVE TexturesFor(_, _)
TexturesFor(nodes, h) ==
    IF nodes = <<>> THEN <<>>
    ELSE IF Head(nodes).identifier = ID_FILE /\ Head(nodes).hash = h
         THEN <<TextureRef(Head(nodes))>>
         ELSE TexturesFor(Tail(nodes), h)

\* The body of the loop of process_material_nodes for one material child
ProcessMaterialNode(child_node) ==
    [name |-> UnwrapOr(FirstString(child_node, NameN), <<>>),
     textures |-> IF child_node.child_nodes # <<>>
                  THEN TexturesFor(child_node.child_nodes, AlbedoHash(child_node))
                  ELSE <<>>]

\* process_material_nodes
RECURSIVE ProcessMaterialNodes(_)
ProcessMaterialNodes(nodes) ==
    IF nodes = <<>> THEN <<>>
    ELSE (IF Head(nodes).identifier = ID_MATERIAL
          THEN <<ProcessMaterialNode(Head(nodes))>> ELSE <<>>)
         \o ProcessMaterialNodes(Tail(nodes))

-----------------------------------------------------------------------------
(* Meshes *)

\* values.get(i).and_then(|v| v.get_uint()).unwrap_or(0), i counted from 0
IndexAt(values, i) ==
    IF i + 1 <= Len(values) THEN UnwrapOr(GetUint(values[i + 1]), 0) ELSE 0

\* A face pushed in file order.
FaceInFileOrder(values, i) ==
    <<IndexAt(values, i), IndexAt(values, i + 1), IndexAt(values, i + 2)>>

\* Face::new(a, b, c) with a, b, c read at i + 2, i + 1, i
FaceAt(values, i) ==
    <<IndexAt(values, i + 2), IndexAt(values, i + 1), IndexAt(values, i)>>

\* A face for every whole group of three values only.
FaceBufferWholeGroups(values) ==
    [j \in 1..(Len(values) \div 3) |-> FaceAt(values, 3 * (j - 1))]

\* for i in (0..values.len()).step_by(3)
FaceBuffer(values) ==
    [j \in 1..((Len(values) + 2) \div 3) |-> FaceAt(values, 3 * (j - 1))]

\* vp: one vertex per value that is a 3-vector
RECURSIVE Positions(_)
Positions(values) ==
    IF values = <<>> THEN <<>>
    ELSE (IF GetVector3(Head(values)) # None
          THEN <<GetVector3(Head(values))[1]>> ELSE <<>>) \o Positions(Tail(values))

\* The body of the loop of process_mesh_nodes for one mesh child
ProcessMeshNode(child_node, mesh_index) ==
    [uv_layers |-> UnwrapOr(FirstInt(child_node, NameUL), 0),
     maximum_influence |-> UnwrapOr(FirstInt(child_node, NameMI), 0),
     vertices |-> IF NameVP \in DOMAIN child_node.properties
                  THEN Positions(child_node.properties[NameVP].values) ELSE <<>>,
     faces |-> IF NameF \in DOMAIN child_node.properties
               THEN FaceBuffer(child_node.properties[NameF].values) ELSE <<>>,
     material |-> Some(mesh_index)]

\* Mesh nodes collected at every depth below the model node.
RECURSIVE ProcessMeshNodesDeep(_, _)
ProcessMeshNodesDeep(nodes, mesh_index) ==
    IF nodes = <<>> THEN <<>>
    ELSE LET here == IF Head(nodes).identifier = ID_MESH
                     THEN <<ProcessMeshNode(Head(nodes), mesh_index)>>
                     ELSE ProcessMeshNodesDeep(Head(nodes).child_nodes, mesh_index)
         IN here \o ProcessMeshNodesDeep(Tail(nodes), mesh_index + Len(here))

\* process_mesh_nodes, mesh_index counting the mesh children seen so far
RECURSIVE ProcessMeshNodes(_, _)
ProcessMeshNodes(nodes, mesh_index) ==
    IF nodes = <<>> THEN <<>>
    ELSE IF Head(nodes).identifier = ID_MESH
         THEN <<ProcessMeshNode(Head(nodes), mesh_index)>>
                  \o ProcessMeshNodes(Tail(nodes), mesh_index + 1)
         ELSE ProcessMeshNodes(Tail(nodes), mesh_index)

-----------------------------------------------------------------------------
(* Model nodes given to process_model_node: the decoded form of node       *)
(* descriptions, as CastFile::load builds them.                            *)

TagBytes(kind) ==
    CASE kind = "Byte" -> <<98, 0>>
      [] kind = "Short" -> <<104, 0>>
      [] kind = "Int" -> <<105, 0>>
      [] kind = "Long" -> <<108, 0>>
      [] kind = "Float" -> <<102, 0>>
      [] kind = "String" -> <<115, 0>>
      [] kind = "Vector3" -> <<51, 118>>
      [] OTHER -> <<52, 118>>

\* A property description of the given kind
PV(name, kind, vals) ==
    PD(TagBytes(kind), name, [i \in 1..Len(vals) |-> Value(kind, vals[i])])

V3One == F32One \o F32One \o F32One

FileD(hash, path) == ND(ID_FILE, hash, <<PV(NameP, "String", <<path>>)>>, <<>>)

TextureKids ==
    {<<>>,
     <<FileD(5, <<116, 53>>)>>,
     <<FileD(0, <<116, 48>>)>>,
     <<FileD(6, <<116, 54>>), FileD(5, <<116, 53>>)>>,
     <<ND(ID_MESH, 5, <<PV(NameP, "String", <<120>>)>>, <<>>), ND(ID_FILE, 6, <<>>, <<>>)>>,
     <<ND(ID_ROOT, 9, <<>>, <<FileD(5, <<116, 53>>)>>)>>,
     <<FileD(5, <<97>>), FileD(5, <<98>>)>>}

\* What a material may carry as `albedo` or as `diffuse`
RefProps(name) ==
    {<<>>, <<PV(name, "String", << <<53>> >>)>>, <<PV(name, "Byte", <<5>>)>>}
    \cup {<<PV(name, "Long", <<h>>)>> : h \in {0, 5, 6}}

MaterialD(hash, name, refs, kids) ==
    ND(ID_MATERIAL, hash, <<PV(NameN, "String", <<name>>)>> \o refs, kids)

BoneLists ==
    {<<>>,
     <<ND(ID_BONE, 20, <<PV(NameN, "String", << <<114>> >>)>>, <<>>),
       ND(ID_MESH, 22, <<>>, <<>>),
       ND(ID_BONE, 21, <<PV(NameP, "Int", <<0>>), PV(NameLP, "Vector3", <<V3One>>)>>,
          <<>>),
       ND(ID_BONE, 23, <<>>, <<>>)>>,
     <<ND(ID_BONE, 20, <<PV(NameN, "Int", <<4>>), PV(NameP, "String", << <<48>> >>)>>,
          <<>>)>>,
     <<ND(ID_BONE, 20, <<PV(NameN, "String", <<>>), PV(NameP, "Long", <<1>>),
                         PV(NameS, "Vector3", <<V3One>>),
                         PV(NameWR, "Vector4", <<V3One \o F32One>>)>>, <<>>)>>}

SkeletonD(bones) == ND(ID_SKELETON, 3, <<>>, bones)

FaceValues(n, variant) ==
    [i \in 1..n |-> IF variant = 1 THEN (i - 1) % 4 ELSE 250 - ((3 * i) % 5)]

FaceProps ==
    {<<>>,
     <<PV(NameF, "Int", <<0, 1, 2, 2, 3, 0>>)>>,
     <<PV(NameF, "Long", <<1, 2, 3>>)>>,
     <<PV(NameF, "Float", <<F32One, F32One>>)>>}
    \cup {<<PV(NameF, kind, FaceValues(n, variant))>> :
             kind \in {"Byte", "Short", "Int"}, n \in 0..MaxFaceValues,
             variant \in 1..2}

MaterialRefs == {<<>>} \cup {<<PV(NameM, "Long", <<h>>)>> : h \in {0, 10, 11, 99}}

MeshD(hash, f, m) ==
    ND(ID_MESH, hash, f \o m \o <<PV(NameVP, "Vector3", <<V3One, V3One>>)>>, <<>>)

PlainMesh == MeshD(31, <<PV(NameF, "Byte", <<0, 1, 2>>)>>, <<PV(NameM, "Long", <<10>>)>>)

MaterialLists ==
    {<<>>,
     <<MaterialD(10, <<97>>, <<>>, <<>>)>>,
     <<MaterialD(10, <<97>>, <<>>, <<>>), MaterialD(11, <<98>>, <<>>, <<>>)>>,
     <<MaterialD(11, <<98>>, <<>>, <<>>), MaterialD(10, <<98>>, <<>>, <<>>)>>}

ModelD(kids) == ND(ID_MODEL, 2, <<>>, kids)

ModelDescs ==
    \* one material in every combination of references and children
    {ModelD(<<SkeletonD(<<>>), MaterialD(10, <<97>>, a \o d, kids), PlainMesh>>) :
        a \in RefProps(NameAlbedo), d \in RefProps(NameDiffuse), kids \in TextureKids}
    \* one or two meshes over every face list and material reference
    \cup {ModelD(sk \o mats \o <<MeshD(30, f, m)>> \o more) :
             sk \in {<<>>, <<SkeletonD(<<>>)>>}, mats \in MaterialLists,
             f \in FaceProps, m \in MaterialRefs, more \in {<<>>, <<PlainMesh>>}}
    \* skeletons
    \cup {ModelD(<<SkeletonD(bones)>>) : bones \in BoneLists}
    \* children in another order, unrecognised tags, a second skeleton
    \cup {ModelD(<<PlainMesh, MaterialD(10, <<97>>, <<>>, <<>>),
                   ND(ID_ROOT, 40, <<>>, <<PlainMesh, SkeletonD(<<>>)>>)>> \o sk
                 \o <<MeshD(30, <<>>, <<>>), SkeletonD(<<>>)>>) :
             sk \in {<<>>} \cup {<<SkeletonD(bones)>> : bones \in BoneLists}}

-----------------------------------------------------------------------------
(* process_model_node *)

InitProject ==
    /\ model_node \in {ExpectedNode(d, Some(1)) : d \in ModelDescs}
    /\ stage = "start"
    /\ model = NoModel
    /\ src = [file |-> [magic |-> CAST_MAGIC, roots |-> <<>>], cut |-> 0, full |-> 0]
    /\ data = <<>>
    /\ pos = 0
    /\ pc = "idle"
    /\ status = "none"
    /\ roots_left = 0
    /\ stack = <<>>
    /\ root_nodes = <<>>
    /\ result = <<>>
    /\ cast = None
    /\ policy = "readers_first"
    /\ AssetManagerNew

\* model.skeleton = process_skeleton_node(find(skeleton).expect(..))
ProcessSkeleton ==
    /\ stage = "start"
    /\ LET found == FindChild(model_node.child_nodes, ID_SKELETON)
       IN IF found = None
          THEN /\ stage' = "panicked"
               /\ UNCHANGED model
          ELSE /\ model' = [model EXCEPT !.skeleton = ProcessSkeletonNode(found[1])]
               /\ stage' = "skeleton"
    /\ UNCHANGED model_node
    /\ UNCHANGED decodeVars
    /\ UNCHANGED assetVars

\* process_material_nodes(model_node, &mut model)
ProcessMaterials ==
    /\ stage = "skeleton"
    /\ model' = [model EXCEPT !.materials =
                    @ \o ProcessMaterialNodes(model_node.child_nodes)]
    /\ stage' = "materials"
    /\ UNCHANGED model_node
    /\ UNCHANGED decodeVars
    /\ UNCHANGED assetVars

\* process_mesh_nodes(model_node, &mut model); the model is returned
ProcessMeshes ==
    /\ stage = "materials"
    /\ model' = [model EXCEPT !.meshes =
                    @ \o ProcessMeshNodes(model_node.child_nodes, 0)]
    /\ stage' = "returned"
    /\ UNCHANGED model_node
    /\ UNCHANGED decodeVars
    /\ UNCHANGED assetVars

NextProject ==
    \/ ProcessSkeleton
    \/ ProcessMaterials
    \/ ProcessMeshes

SpecProject == InitProject /\ [][NextProject]_vars

-----------------------------------------------------------------------------
(* Properties of the projection *)

MeshChildren == SelectSeq(model_node.child_nodes, LAMBDA c : c.identifier = ID_MESH)

MaterialChildren ==
    SelectSeq(model_node.child_nodes, LAMBDA c : c.identifier = ID_MATERIAL)

\* Subtree hash resolution: the nodes below root, depth first in document
\* order (root itself excluded), and the first of them whose hash is h.
RECURSIVE Descendants(_)
RECURSIVE DescendantsOfAll(_)
Descendants(root) == DescendantsOfAll(root.child_nodes)

DescendantsOfAll(nodes) ==
    IF nodes = <<>> THEN <<>>
    ELSE <<Head(nodes)>> \o Descendants(Head(nodes)) \o DescendantsOfAll(Tail(nodes))

Resolve(root, h) ==
    LET hit == SelectSeq(Descendants(root), LAMBDA n : n.hash = h)
    IN IF hit = <<>> THEN None ELSE Some(hit[1])

HasSkeleton == \E i \in 1..Len(model_node.child_nodes) :
    model_node.child_nodes[i].identifier = ID_SKELETON

MaterialsDone == stage \in {"materials", "returned"}

\* C4: a model node without a direct "skeleton" child still projects: the
\* call completes with a Model of zero bones, its materials and meshes
\* projected; the missing skeleton aborts nothing.
C4_MissingSkeletonProjects ==
    ~HasSkeleton =>
        /\ stage # "panicked"
        /\ stage = "returned" =>
              /\ model.skeleton = <<>>
              /\ Len(model.materials) = Len(MaterialChildren)
              /\ Len(model.meshes) = Len(MeshChildren)

IntegerFaces(c) ==
    /\ NameF \in DOMAIN c.properties
    /\ Len(c.properties[NameF].values) % 3 = 0
    /\ \A i \in 1..Len(c.properties[NameF].values) :
          c.properties[NameF].values[i].kind \in {"Byte", "Short", "Int"}

\* C5: a mesh node whose `f` holds 3k values of type b, h or i projects to
\* exactly k faces, and face j is (v[3j+2], v[3j+1], v[3j]): every triple
\* reversed, the triples in file order.
C5_FacesReversed ==
    stage = "returned" =>
        \A i \in 1..Len(MeshChildren) :
            IntegerFaces(MeshChildren[i]) =>
                LET v == MeshChildren[i].properties[NameF].values
                    k == Len(v) \div 3
                IN /\ i <= Len(model.meshes)
                   /\ Len(model.meshes[i].faces) = k
                   /\ \A j \in 0..(k - 1) :
                         model.meshes[i].faces[j + 1] =
                             <<v[3 * j + 3].v, v[3 * j + 2].v, v[3 * j + 1].v>>

C5_Witness ==
    /\ stage = "returned"
    /\ \E i \in 1..Len(MeshChildren) :
          /\ IntegerFaces(MeshChildren[i])
          /\ MeshChildren[i].properties[NameF].property_type = TagH
          /\ Len(model.meshes[i].faces) = 2
          /\ model.meshes[i].faces[2][1] # model.meshes[i].faces[2][3]
          /\ model.meshes[i].faces[1] # model.meshes[i].faces[2]

\* The mesh node's `m` reference resolves to no entry of Model.materials:
\* there is no `m`, or no node below the model node has that hash, or the
\* resolved node's name is the name of no material.
Unlinked(c) ==
    LET m == FirstLong(c, NameM)
        hit == Resolve(model_node, m[1])
    IN \/ m = None
       \/ hit = None
       \/ \A k \in 1..Len(model.materials) :
             model.materials[k].name # UnwrapOr(FirstString(hit[1], NameN), <<>>)

\* C6: a mesh node with no `m`, or whose `m` hash no node below the model
\* node has, or whose resolved node's name is no material's name, projects
\* to a mesh with material == None.
C6_UnlinkedMeshHasNoMaterial ==
    stage = "returned" =>
        \A i \in 1..Len(MeshChildren) :
            Unlinked(MeshChildren[i]) => model.meshes[i].material = None

\* C7: in a returned Model, a mesh's material Some(k) has k below the number
\* of materials, and materials[k] is the projection of the material node
\* whose hash is the mesh node's `m`.
C7_MaterialIndexInRange ==
    stage = "returned" =>
        \A i \in 1..Len(model.meshes) :
            model.meshes[i].material # None =>
                LET k == model.meshes[i].material[1]
                    m == FirstLong(MeshChildren[i], NameM)
                IN /\ k < Len(model.materials)
                   /\ k < Len(MaterialChildren)
                   /\ m # None
                   /\ MaterialChildren[k + 1].hash = m[1]

\* The material's reference is unset or dangling, whichever of `albedo` and
\* `diffuse` is read first: 0, or the hash of no node below the material.
NoReference(n) ==
    \A h \in {AlbedoHash(n), AlbedoThenDiffuse(n)} : h = 0 \/ Resolve(n, h) = None

\* C9: a material whose reference hash is 0 (or absent), or is the hash of
\* no node of its own subtree, has an empty texture list, whatever children
\* and child hashes (0 included) it has.
C9_NoReferenceNoTexture ==
    MaterialsDone =>
        \A i \in 1..Len(MaterialChildren) :
            NoReference(MaterialChildren[i]) => model.materials[i].textures = <<>>

\* C10: the reference hash resolved for a material is the first value of
\* `albedo` when that is present and integer-typed, and of `diffuse` only
\* otherwise; with both present and different, `albedo` is resolved.
C10_AlbedoBeforeDiffuse ==
    MaterialsDone =>
        \A i \in 1..Len(MaterialChildren) :
            model.materials[i].textures =
                IF MaterialChildren[i].child_nodes # <<>>
                THEN TexturesFor(MaterialChildren[i].child_nodes,
                                 AlbedoThenDiffuse(MaterialChildren[i]))
                ELSE <<>>

\* C11: a material with a nonzero reference hash h that is the hash of some
\* node below it, at any depth and with any tag, projects to exactly one
\* texture reference: usage Albedo, texture_hash h, and as file name the `p`
\* string of the first such node in depth-first document order.  (Taken
\* over the materials whose `albedo` and `diffuse` readings agree on h.)
C11_AnyDescendantResolves ==
    MaterialsDone =>
        \A i \in 1..Len(MaterialChildren) :
            LET n == MaterialChildren[i]
                h == AlbedoHash(n)
                hit == Resolve(n, h)
            IN (h # 0 /\ h = AlbedoThenDiffuse(n) /\ hit # None) =>
                   model.materials[i].textures =
                       <<[file_name |-> UnwrapOr(FirstString(hit[1], NameP), <<>>),
                          texture_usage |-> "Albedo",
                          texture_alias |-> <<>>,
                          texture_hash |-> h]>>

SkeletonDone == stage \in {"skeleton", "materials", "returned"}

\* The direct children tagged "bone" of the first child tagged "skeleton"
BoneChildren ==
    LET kids == model_node.child_nodes
        first == CHOOSE i \in 1..Len(kids) :
                     /\ kids[i].identifier = ID_SKELETON
                     /\ \A j \in 1..(i - 1) : kids[j].identifier # ID_SKELETON
    IN SelectSeq(kids[first].child_nodes, LAMBDA c : c.identifier = ID_BONE)

\* The node has no property of that name whose first value is of one of
\* the kinds.
NoFirstValueOf(c, name, kinds) ==
    \/ name \notin DOMAIN c.properties
    \/ c.properties[name].values = <<>>
    \/ c.properties[name].values[1].kind \notin kinds

\* C12: every node tagged "bone" directly under the skeleton node yields a
\* Bone, in order; one without `p`, or whose `p` has no first value of type
\* b, h or i, has parent -1; one without `n`, or whose `n` has no string
\* first value, has no name.
C12_BoneDefaults ==
    (SkeletonDone /\ HasSkeleton) =>
        /\ Len(model.skeleton) = Len(BoneChildren)
        /\ \A i \in 1..Len(BoneChildren) :
              /\ NoFirstValueOf(BoneChildren[i], NameP, {"Byte", "Short", "Int"})
                     => model.skeleton[i].parent = -1
              /\ NoFirstValueOf(BoneChildren[i], NameN, {"String"})
                     => model.skeleton[i].name = None

C12_Witness ==
    /\ stage = "returned"
    /\ HasSkeleton
    /\ Len(model.skeleton) = 3
    /\ BoneChildren[3].properties = EmptyMap
    /\ model.skeleton[3].parent = -1
    /\ model.skeleton[3].name = None
    /\ model.skeleton[2].parent = 0
    /\ model.skeleton[1].name # None

\* C13: the returned Model has one mesh per direct child of the model node
\* tagged "mesh" and no other; the i-th mesh is the projection of the i-th
\* such child in document order.
C13_OneMeshPerMeshChild ==
    stage = "returned" =>
        /\ Len(model.meshes) = Len(MeshChildren)
        /\ \A i \in 1..Len(MeshChildren) :
              model.meshes[i] =
                  [ProcessMeshNode(MeshChildren[i], 0)
                       EXCEPT !.material = model.meshes[i].material]

C13_Witness ==
    /\ stage = "returned"
    /\ Len(model.meshes) = 2
    /\ model.meshes[1].faces # model.meshes[2].faces
    /\ \E i, j, k \in 1..Len(model_node.child_nodes) :
          /\ i < j /\ j < k
          /\ model_node.child_nodes[i].identifier = ID_MESH
          /\ model_node.child_nodes[k].identifier = ID_MESH
          /\ model_node.child_nodes[j].identifier # ID_MESH
          /\ \E g \in 1..Len(model_node.child_nodes[j].child_nodes) :
                model_node.child_nodes[j].child_nodes[g].identifier = ID_MESH

\* C19: a mesh node whose `f` holds n values projects to the least k faces
\* with 3k >= n; face j is (u[3j+2], u[3j+1], u[3j]) where u[i] is the i-th
\* value when there is one and it is of type b, h or i, and 0 otherwise.
C19_TrailingGroupMakesAFace ==
    stage = "returned" =>
        \A i \in 1..Len(MeshChildren) :
            NameF \in DOMAIN MeshChildren[i].properties =>
                LET v == MeshChildren[i].properties[NameF].values
                    n == Len(v)
                    k == CHOOSE c \in 0..n : 3 * c >= n /\ 3 * (c - 1) < n
                    u(x) == IF x < n /\ v[x + 1].kind \in {"Byte", "Short", "Int"}
                            THEN v[x + 1].v ELSE 0
                IN /\ Len(model.meshes[i].faces) = k
                   /\ \A j \in 0..(k - 1) :
                         model.meshes[i].faces[j + 1] =
                             <<u(3 * j + 2), u(3 * j + 1), u(3 * j)>>

C19_Witness ==
    /\ stage = "returned"
    /\ \E i \in 1..Len(MeshChildren) :
          /\ NameF \in DOMAIN MeshChildren[i].properties
          /\ Len(MeshChildren[i].properties[NameF].values) = 4
          /\ Len(model.meshes[i].faces) = 2
          /\ model.meshes[i].faces[2][1] = 0
          /\ model.meshes[i].faces[2][2] = 0
          /\ model.meshes[i].faces[2][3] > 0

-----------------------------------------------------------------------------
(* AssetManager: the files on disk *)

ExtCast == <<99, 97, 115, 116>>

ExtCastUpper == <<67, 65, 83, 84>>

ExtTxt == <<116, 120, 116>>

\* A file holding one root with a model child, and one without
ModelRoots == <<ND(ID_ROOT, 1, <<>>, <<Leaf(<<>>), ND(ID_MODEL, 2, <<>>, <<>>)>>)>>

PlainRoots == <<ND(ID_ROOT, 1, <<>>, <<Leaf(<<>>)>>)>>

DiskFile(stem, ext, openable, parses, roots) ==
    [stem |-> stem, ext |-> ext, openable |-> openable, parses |-> parses,
     roots |-> roots]

\* path |-> what is at that path: file stem, extension, whether File::open
\* succeeds, whether CastFile::read succeeds, and the roots it then returns
Disk ==
    ("a.cast" :> DiskFile(<<97>>, ExtCast, TRUE, TRUE, ModelRoots))
    @@ ("b.cast" :> DiskFile(<<98>>, ExtCast, TRUE, TRUE, PlainRoots))
    @@ ("ab.cast" :> DiskFile(<<97, 98>>, ExtCast, TRUE, TRUE, ModelRoots))
    @@ ("ba.CAST" :> DiskFile(<<98, 97>>, ExtCastUpper, TRUE, TRUE, ModelRoots))
    @@ ("x.cast" :> DiskFile(<<120>>, ExtCast, TRUE, FALSE, <<>>))
    @@ ("l.cast" :> DiskFile(<<108>>, ExtCast, FALSE, TRUE, ModelRoots))
    @@ ("n.txt" :> DiskFile(<<110>>, ExtTxt, TRUE, TRUE, ModelRoots))

\* The `files` arguments of load_files
FileArgs ==
    {<<"a.cast", "b.cast", "ab.cast">>,
     <<"n.txt", "ba.CAST">>,
     <<"x.cast", "n.txt", "a.cast">>}

\* The `directory` arguments of load_directory, entries in walk order
DirArgs ==
    {[is_dir |-> FALSE, entries |-> <<>>],
     [is_dir |-> TRUE, entries |-> <<"a.cast", "b.cast", "ba.CAST", "x.cast", "n.txt">>],
     [is_dir |-> TRUE, entries |-> <<"b.cast", "n.txt">>],
     [is_dir |-> TRUE, entries |-> <<"ab.cast", "l.cast", "a.cast">>]}

\* The search terms, and the indexes passed to assets_info and preview
Terms == {<<97>>, <<98>>}

Indexes == 0..MaxIndex

-----------------------------------------------------------------------------
(* AssetManager: the functions *)

ToAsciiLower(b) == IF b >= 65 /\ b <= 90 THEN b + 32 ELSE b

\* str::eq_ignore_ascii_case
EqIgnoreAsciiCase(a, b) ==
    /\ Len(a) = Len(b)
    /\ \A i \in 1..Len(a) : ToAsciiLower(a[i]) = ToAsciiLower(b[i])

\* ensure_has_model: the file parses and some root has a child tagged model
EnsureHasModel(path) ==
    /\ Disk[path].parses
    /\ \E i \in 1..Len(Disk[path].roots) :
          \E j \in 1..Len(Disk[path].roots[i].kids) :
              Disk[path].roots[i].kids[j].identifier = ID_MODEL

\* Asset { name: file_stem, file_name, status: LOADED }
AssetOf(path) == [name |-> Disk[path].stem, file_name |-> path, status |-> "LOADED"]

\* load_files: the files of the loop up to the next one with ext == "cast"
RECURSIVE LoadFilesSkip(_)
LoadFilesSkip(files) ==
    IF files = <<>> THEN <<>>
    ELSE IF Disk[Head(files)].ext = ExtCast THEN files
         ELSE LoadFilesSkip(Tail(files))

\* load_directory: the walk that fills `discovered`; a File::open error
\* returns Err out of the function.
RECURSIVE Discover(_, _)
Discover(entries, discovered) ==
    IF entries = <<>> THEN [ok |-> TRUE, discovered |-> discovered]
    ELSE IF ~EqIgnoreAsciiCase(Disk[Head(entries)].ext, ExtCast)
         THEN Discover(Tail(entries), discovered)
    ELSE IF ~Disk[Head(entries)].openable
         THEN [ok |-> FALSE, discovered |-> <<>>]
    ELSE IF ~EnsureHasModel(Head(entries))
         THEN Discover(Tail(entries), discovered)
    ELSE Discover(Tail(entries), Append(discovered, AssetOf(Head(entries))))

\* search.matches(asset.search()): the term occurs in the asset's name
Matches(term, asset) ==
    \E i \in 0..(Len(asset.name) - Len(term)) :
        SubSeq(asset.name, i + 1, i + Len(term)) = term

\* enumerate().filter_map(..): the indexes of the matching assets
RECURSIVE SearchFrom(_, _, _)
SearchFrom(assets, term, index) ==
    IF assets = <<>> THEN <<>>
    ELSE (IF Matches(term, Head(assets)) THEN <<index>> ELSE <<>>)
         \o SearchFrom(Tail(assets), term, index + 1)

\* The matching indexes collected last first.
SearchResultsReversed(assets, term) ==
    LET r == SearchFrom(assets, term, 0)
    IN [i \in 1..Len(r) |-> r[Len(r) + 1 - i]]

\* into_par_iter().enumerate().filter_map(..).collect()
SearchResults(assets, term) == SearchFrom(assets, term, 0)

\* assets_info: the loaded asset whose columns are returned, if any
AssetsInfoSelect(search, loaded, index) ==
    LET asset_index ==
            IF search # None
            THEN (IF index < Len(search[1]) THEN Some(search[1][index + 1]) ELSE None)
            ELSE Some(index)
    IN IF asset_index = None THEN None
       ELSE IF asset_index[1] < Len(loaded) THEN asset_index ELSE None

\* assets_info: the columns
AssetsInfo(search, loaded, index) ==
    LET sel == AssetsInfoSelect(search, loaded, index)
    IN IF sel = None THEN <<>>
       ELSE <<loaded[sel[1] + 1].name, "Model", loaded[sel[1] + 1].status, "N/A">>

\* preview: &assets_guard[asset_index], which panics out of range
PreviewSelect(search, loaded, asset) ==
    LET asset_index ==
            UnwrapOr(IF search # None /\ asset < Len(search[1])
                     THEN Some(search[1][asset + 1]) ELSE None,
                     asset)
    IN IF asset_index < Len(loaded)
       THEN [panic |-> FALSE, selected |-> Some(asset_index)]
       ELSE [panic |-> TRUE, selected |-> None]

-----------------------------------------------------------------------------
(* AssetManager: the two RwLocks *)

\* The lock a call asks a read guard of, by its position
ReadsAt ==
    [ai_search |-> "search_assets", ai_loaded |-> "loaded_assets",
     av_search |-> "search_assets", av_loaded |-> "loaded_assets",
     se_loaded |-> "loaded_assets",
     pv_loaded |-> "loaded_assets", pv_search |-> "search_assets"]

\* The lock a call asks the write guard of, by its position
WritesAt ==
    [se_write |-> "search_assets", sn_write |-> "search_assets",
     lf_write |-> "loaded_assets", ld_write |-> "loaded_assets"]

WaitingWriters(l) ==
    {t \in Threads : calls[t].pc \in DOMAIN WritesAt /\ WritesAt[calls[t].pc] = l}

\* RwLock::read returns.  A write guard lives for one assignment (one step
\* here), so no state has a writer inside; under the writers-first policy a
\* waiting writer keeps new readers out.
CanRead(l) == policy = "writers_first" => WaitingWriters(l) = {}

\* A write guard handed out while read guards are held.
CanWriteAmongReaders(l) == l \in Locks

\* RwLock::write returns
CanWrite(l) == readers[l] = {}

\* The lock call at thread t's position returns (TRUE where it is at none)
Granted(t) ==
    IF calls[t].pc \in DOMAIN ReadsAt THEN CanRead(ReadsAt[calls[t].pc])
    ELSE IF calls[t].pc \in DOMAIN WritesAt THEN CanWrite(WritesAt[calls[t].pc])
    ELSE TRUE

Acquire(t, l) == [readers EXCEPT ![l] = @ \cup {t}]

\* Every guard of thread t dropped
ReleaseAll(t) == [l \in Locks |-> readers[l] \ {t}]

Ret(kind, v) == [kind |-> kind, v |-> v]

\* Thread t enters a call
Enter(t, call) ==
    /\ started < MaxCalls
    /\ calls' = [calls EXCEPT ![t] = call]
    /\ started' = started + 1
    /\ UNCHANGED <<policy, loaded_assets, search_assets, readers>>
    /\ UNCHANGED decodeVars
    /\ UNCHANGED projectVars

\* A thread whose call has returned ret, having read `seen` of the filter;
\* the other locals are dropped.
AfterReturn(seen, ret) == [IdleCall EXCEPT !.seen = seen, !.ret = ret]

\* Thread t moves inside its call, the shared lists untouched
Step(t, call, held) ==
    /\ calls' = [calls EXCEPT ![t] = call]
    /\ readers' = held
    /\ UNCHANGED <<policy, loaded_assets, search_assets, started>>
    /\ UNCHANGED decodeVars
    /\ UNCHANGED projectVars

-----------------------------------------------------------------------------
(* AssetManager: the calls *)

InitAssets ==
    /\ policy \in {"readers_first", "writers_first"}
    /\ AssetManagerNew
    /\ src = [file |-> [magic |-> CAST_MAGIC, roots |-> <<>>], cut |-> 0, full |-> 0]
    /\ data = <<>>
    /\ pos = 0
    /\ pc = "idle"
    /\ status = "none"
    /\ roots_left = 0
    /\ stack = <<>>
    /\ root_nodes = <<>>
    /\ result = <<>>
    /\ cast = None
    /\ model_node = NoModelNode
    /\ stage = "idle"
    /\ model = NoModel

\* assets_info(index) is called
CallAssetsInfo(t) ==
    /\ calls[t].pc = "idle"
    /\ \E index \in Indexes :
          Enter(t, [IdleCall EXCEPT !.pc = "ai_search", !.op = "assets_info",
                                    !.index = index])

\* let search_lock = self.search_assets.read()
AssetsInfoReadSearch(t) ==
    /\ calls[t].pc = "ai_search"
    /\ Granted(t)
    /\ Step(t, [calls[t] EXCEPT !.pc = "ai_loaded"], Acquire(t, "search_assets"))

\* let loaded_assets_lock = self.loaded_assets.read()
AssetsInfoReadLoaded(t) ==
    /\ calls[t].pc = "ai_loaded"
    /\ Granted(t)
    /\ Step(t, [calls[t] EXCEPT !.pc = "ai_body"], Acquire(t, "loaded_assets"))

\* the rest of assets_info, both guards dropped at the return
AssetsInfoReturn(t) ==
    /\ calls[t].pc = "ai_body"
    /\ Step(t, AfterReturn(Some(search_assets),
                           Ret("columns", AssetsInfo(search_assets, loaded_assets,
                                                     calls[t].index))),
            ReleaseAll(t))

\* assets_visible() is called
CallAssetsVisible(t) ==
    /\ calls[t].pc = "idle"
    /\ Enter(t, [IdleCall EXCEPT !.pc = "av_search", !.op = "assets_visible"])

\* let search_lock = self.search_assets.read(); with a filter its length is
\* returned, without one the loaded list is read next
AssetsVisibleReadSearch(t) ==
    /\ calls[t].pc = "av_search"
    /\ Granted(t)
    /\ IF search_assets # None
       THEN Step(t, AfterReturn(Some(search_assets),
                                Ret("count", <<Len(search_assets[1])>>)),
                 readers)
       ELSE Step(t, [calls[t] EXCEPT !.pc = "av_loaded",
                                      !.seen = Some(search_assets)],
                 Acquire(t, "search_assets"))

\* self.loaded_assets.read().unwrap().len()
AssetsVisibleReadLoaded(t) ==
    /\ calls[t].pc = "av_loaded"
    /\ Granted(t)
    /\ Step(t, AfterReturn(calls[t].seen, Ret("count", <<Len(loaded_assets)>>)),
            ReleaseAll(t))

\* search(search) is called
CallSearch(t) ==
    /\ calls[t].pc = "idle"
    /\ \/ Enter(t, [IdleCall EXCEPT !.pc = "sn_write", !.op = "search"])
       \/ \E term \in Terms :
             Enter(t, [IdleCall EXCEPT !.pc = "se_loaded", !.op = "search",
                                       !.term = term])

\* *self.search_assets.write() = None; return
SearchClear(t) ==
    /\ calls[t].pc = "sn_write"
    /\ Granted(t)
    /\ search_assets' = None
    /\ calls' = [calls EXCEPT ![t] = AfterReturn(<<>>, Ret("unit", <<>>))]
    /\ UNCHANGED <<policy, loaded_assets, readers, started>>
    /\ UNCHANGED decodeVars
    /\ UNCHANGED projectVars

\* let loaded_assets = self.loaded_assets.read(); let results = ..collect()
SearchReadLoaded(t) ==
    /\ calls[t].pc = "se_loaded"
    /\ Granted(t)
    /\ Step(t, [calls[t] EXCEPT !.pc = "se_write",
                                 !.results = SearchResults(loaded_assets,
                                                           calls[t].term)],
            Acquire(t, "loaded_assets"))

\* *self.search_assets.write() = Some(results); the read guard of the
\* loaded list is dropped at the return
SearchInstall(t) ==
    /\ calls[t].pc = "se_write"
    /\ Granted(t)
    /\ search_assets' = Some(calls[t].results)
    /\ calls' = [calls EXCEPT ![t] = AfterReturn(<<>>, Ret("unit", <<>>))]
    /\ readers' = ReleaseAll(t)
    /\ UNCHANGED <<policy, loaded_assets, started>>
    /\ UNCHANGED decodeVars
    /\ UNCHANGED projectVars

\* The loop of load_files standing before `todo`: at the write of the loaded
\* list for its first file, or returned Ok(()) when none is left
LoadFilesAt(todo) ==
    IF todo = <<>> THEN AfterReturn(<<>>, Ret("Ok", <<>>))
    ELSE [IdleCall EXCEPT !.pc = "lf_write", !.op = "load_files", !.todo = todo]

\* load_files(files) is called; the loop runs to the first "cast" file
CallLoadFiles(t) ==
    /\ calls[t].pc = "idle"
    /\ \E files \in FileArgs : Enter(t, LoadFilesAt(LoadFilesSkip(files)))

\* let mut loaded = self.loaded_assets.write(); loaded.push(asset); then on
\* to the next "cast" file
LoadFilesPush(t) ==
    /\ calls[t].pc = "lf_write"
    /\ Granted(t)
    /\ loaded_assets' = Append(loaded_assets, AssetOf(Head(calls[t].todo)))
    /\ calls' = [calls EXCEPT ![t] = LoadFilesAt(LoadFilesSkip(Tail(calls[t].todo)))]
    /\ UNCHANGED <<policy, search_assets, readers, started>>
    /\ UNCHANGED decodeVars
    /\ UNCHANGED projectVars

\* load_directory up to the write of the loaded list
LoadDirectoryAt(directory) ==
    LET walk == Discover(directory.entries, <<>>)
    IN IF ~directory.is_dir \/ ~walk.ok THEN AfterReturn(<<>>, Ret("Err", <<>>))
       ELSE IF walk.discovered = <<>> THEN AfterReturn(<<>>, Ret("Ok", <<>>))
       ELSE [IdleCall EXCEPT !.pc = "ld_write", !.op = "load_directory",
                             !.todo = walk.discovered]

\* load_directory(directory) is called
CallLoadDirectory(t) ==
    /\ calls[t].pc = "idle"
    /\ \E directory \in DirArgs : Enter(t, LoadDirectoryAt(directory))

\* let mut loaded = self.loaded_assets.write(); loaded.extend(discovered)
LoadDirectoryExtend(t) ==
    /\ calls[t].pc = "ld_write"
    /\ Granted(t)
    /\ loaded_assets' = loaded_assets \o calls[t].todo
    /\ calls' = [calls EXCEPT ![t] = AfterReturn(<<>>, Ret("Ok", <<>>))]
    /\ UNCHANGED <<policy, search_assets, readers, started>>
    /\ UNCHANGED decodeVars
    /\ UNCHANGED projectVars

\* preview(asset) is called
CallPreview(t) ==
    /\ calls[t].pc = "idle"
    /\ \E asset \in Indexes :
          Enter(t, [IdleCall EXCEPT !.pc = "pv_loaded", !.op = "preview",
                                    !.index = asset])

\* let assets_guard = self.loaded_assets.read()
PreviewReadLoaded(t) ==
    /\ calls[t].pc = "pv_loaded"
    /\ Granted(t)
    /\ Step(t, [calls[t] EXCEPT !.pc = "pv_search"], Acquire(t, "loaded_assets"))

\* let search = self.search_assets.read(); the asset is selected and the
\* guard of the search list dropped at the end of the block.  An index out
\* of range panics and the unwinding drops the other guard too.
PreviewSelectAsset(t) ==
    /\ calls[t].pc = "pv_search"
    /\ Granted(t)
    /\ LET sel == PreviewSelect(search_assets, loaded_assets, calls[t].index)
       IN IF sel.panic
          THEN Step(t, AfterReturn(Some(search_assets), Ret("panic", <<>>)),
                    ReleaseAll(t))
          ELSE Step(t, [calls[t] EXCEPT !.pc = "pv_body",
                                         !.index = 0,
                                         !.seen = Some(search_assets),
                                         !.ret = Ret("selected", sel.selected)],
                    readers)

\* the file of the selected asset is read and projected; assets_guard is
\* dropped at the return
PreviewReturn(t) ==
    /\ calls[t].pc = "pv_body"
    /\ Step(t, AfterReturn(calls[t].seen, calls[t].ret), ReleaseAll(t))

NextAssets ==
    \E t \in Threads :
        \/ CallAssetsInfo(t)
        \/ AssetsInfoReadSearch(t)
        \/ AssetsInfoReadLoaded(t)
        \/ AssetsInfoReturn(t)
        \/ CallAssetsVisible(t)
        \/ AssetsVisibleReadSearch(t)
        \/ AssetsVisibleReadLoaded(t)
        \/ CallSearch(t)
        \/ SearchClear(t)
        \/ SearchReadLoaded(t)
        \/ SearchInstall(t)
        \/ CallLoadFiles(t)
        \/ LoadFilesPush(t)
        \/ CallLoadDirectory(t)
        \/ LoadDirectoryExtend(t)
        \/ CallPreview(t)
        \/ PreviewReadLoaded(t)
        \/ PreviewSelectAsset(t)
        \/ PreviewReturn(t)

SpecAssets == InitAssets /\ [][NextAssets]_vars

-----------------------------------------------------------------------------
(* Properties of the AssetManager *)

RECURSIVE Ascending(_)
Ascending(S) ==
    IF S = {} THEN <<>>
    ELSE LET least == CHOOSE x \in S : \A y \in S : x <= y
         IN <<least>> \o Ascending(S \ {least})

\* The indexes of the assets that match the term, in ascending order
MatchingIndexes(assets, term) ==
    Ascending({i \in 0..(Len(assets) - 1) : Matches(term, assets[i + 1])})

\* list is the whole result of a search over the loaded list as it is or as
\* it was (the loaded list only grows, at its end).
WholeResult(list) ==
    \E term \in Terms, n \in 0..Len(loaded_assets) :
        list = MatchingIndexes(SubSeq(loaded_assets, 1, n), term)

\* C15: whatever the interleaving, the filter a reader (assets_info,
\* assets_visible, preview) has read is no filter or the whole result of a
\* search, never part of one; and the list a search installs is the
\* ascending indexes of the assets loaded at that moment that match its term.
C15_ReadersSeeWholeResults ==
    /\ [](\A t \in Threads :
             calls[t].seen # <<>> =>
                 \/ calls[t].seen[1] = None
                 \/ WholeResult(calls[t].seen[1][1]))
    /\ [][\A t \in Threads :
             (calls[t].pc = "se_write" /\ calls'[t].pc = "idle") =>
                 search_assets' = Some(MatchingIndexes(loaded_assets', calls[t].term))]_vars

C15_Witness ==
    /\ Len(loaded_assets) = 3
    /\ search_assets = Some(<<0, 2>>)
    /\ \E t \in Threads :
          /\ calls[t].seen = Some(search_assets)
          /\ calls[t].ret.kind \in {"columns", "selected"}
          /\ calls[t].ret.v # <<>>

\* C16: every asset of the loaded list is a file with the cast extension on
\* which ensure_has_model succeeds, whichever of load_files and
\* load_directory added it.
C16_LoadedAssetsPassedPreCheck ==
    \A i \in 1..Len(loaded_assets) :
        /\ EqIgnoreAsciiCase(Disk[loaded_assets[i].file_name].ext, ExtCast)
        /\ EnsureHasModel(loaded_assets[i].file_name)

\* C17: under either priority policy of the RwLocks no reachable state is a
\* deadlock: whenever some call has started and not returned, the lock call
\* of at least one such call returns.
C17_NoDeadlock ==
    (\E t \in Threads : calls[t].pc # "idle") =>
        \E u \in Threads : calls[u].pc # "idle" /\ Granted(u)

\* C18: in every reachable state and for every index i, preview(i) selects
\* the loaded asset assets_info(i) describes in that state, and where
\* assets_info(i) returns no columns preview(i) selects none and does not
\* panic.
C18_PreviewSelectsWhatInfoDescribes ==
    [][\A t \in Threads :
          (calls[t].pc = "pv_search" /\ calls'[t].pc # "pv_search") =>
              calls'[t].ret =
                  Ret("selected",
                      AssetsInfoSelect(search_assets, loaded_assets, calls[t].index))]_vars

====
